---- MODULE Spec2Model ----
(***************************************************************************)
(* Package southbound of onos-config: the process-wide cache of gNMI       *)
(* targets (targets, targetMu), Target.ConnectTarget, GetTarget,           *)
(* NewTargetItem, the unary calls, Close and Subscribe, run by concurrent  *)
(* goroutines.  Every shared-memory access of the code is one step.        *)
(***************************************************************************)
EXTENDS Integers, Sequences, FiniteSets, TLC

\* Successful dials of GnmiClientFactory in one behaviour.
MaxClients == 2
\* Subscribe calls that reach GnmiBaseClientFactory in one behaviour.
MaxSubs == 2
\* Target.Close calls in one behaviour.
MaxCloseCalls == 1

Threads == {"g1", "g2"}
Targets == {"t1", "t2"}

\* A nil interface value, a client handle, and a handle whose two words are
\* half written.
Nil == <<"nil">>
Torn == <<"torn">>
Client(n) == <<"clt", n>>
BaseClient(n) == <<"base", n>>
Clients == { Client(n) : n \in 1..MaxClients }

NoThread == "none"
NoTarget == "none"
NoCtx == "none"
NoKey == <<>>
NoTLS == [nil |-> TRUE]
NoCredentials == [nil |-> TRUE]
NoTimeout == <<>>

\* ----------------------------------------------------------------- requests

\* A request string in the protocol-buffer text format, as the sequence of the
\* field names it sets; a token that is no field name stands for text that
\* does not scan ("!!!path: <...>", "not a valid string").
EmptyText == <<>>
NoText == <<"(no string)">>
RequestTexts == { EmptyText, <<"!!!", "path">>, <<"path">>, <<"delete">> }

\* The fields of the three request messages.
Fields(msg) ==
    CASE msg = "CapabilityRequest" -> {"extension"}
      [] msg = "GetRequest" -> {"prefix", "path", "type", "encoding", "use_models", "extension"}
      [] msg = "SetRequest" -> {"prefix", "delete", "replace", "update", "extension"}

NoRequest == [msg |-> "none", fields |-> <<>>]
NoResponse == <<>>
NoRpc == [method |-> "none", req |-> NoRequest, resp |-> NoResponse, err |-> "none"]

\* proto.UnmarshalText(text, r): every field named must be one of the message.
UnmarshalText(text, msg) ==
    IF \A i \in DOMAIN text : text[i] \in Fields(msg)
    THEN [err |-> "nil", r |-> [msg |-> msg, fields |-> text]]
    ELSE [err |-> "unknown field name", r |-> [msg |-> msg, fields |-> <<>>]]

\* ------------------------------------------------------ subscribe requests

\* Most paths in the Paths of one SubscribeOptions.
MaxPaths == 2

\* A mode string is the sequence of its characters.
LowerCase == <<"a", "b", "c", "d", "e", "f", "g", "h", "i", "j", "k", "l", "m", "n", "o", "p", "q", "r", "s", "t", "u", "v", "w", "x", "y", "z">>
UpperCase == <<"A", "B", "C", "D", "E", "F", "G", "H", "I", "J", "K", "L", "M", "N", "O", "P", "Q", "R", "S", "T", "U", "V", "W", "X", "Y", "Z">>

ToUpperChar(c) ==
    IF \E i \in DOMAIN LowerCase : LowerCase[i] = c
    THEN UpperCase[CHOOSE i \in DOMAIN LowerCase : LowerCase[i] = c]
    ELSE c

\* strings.ToUpper
ToUpperUnchanged(str) == str
ToUpper(str) == [i \in DOMAIN str |-> ToUpperChar(str[i])]

\* gpb.SubscriptionList_ONCE.String() and the other names of the two enums.
ONCE == <<"O", "N", "C", "E">>
POLL == <<"P", "O", "L", "L">>
STREAM == <<"S", "T", "R", "E", "A", "M">>
ON_CHANGE == <<"O", "N", "_", "C", "H", "A", "N", "G", "E">>
SAMPLE == <<"S", "A", "M", "P", "L", "E">>
TARGET_DEFINED == <<"T", "A", "R", "G", "E", "T", "_", "D", "E", "F", "I", "N", "E", "D">>

ModeStrings ==
    { <<>>, ONCE, <<"o", "n", "c", "e">>, <<"P", "o", "l", "l">>,
      <<"S", "t", "r", "e", "a", "m">>, <<"s", "t", "r", "e", "a", "m">>, <<"b", "o", "g", "u", "s">>, ON_CHANGE }
StreamModeStrings ==
    { <<>>, ON_CHANGE, <<"o", "n", "_", "c", "h", "a", "n", "g", "e">>, <<"S", "a", "m", "p", "l", "e">>,
      <<"t", "a", "r", "g", "e", "t", "_", "d", "e", "f", "i", "n", "e", "d">>, TARGET_DEFINED, <<"o", "n", "c", "e">>, <<"b", "o", "g", "u", "s">> }

\* Lines 281-293: the list mode of subscribeOptions.Mode
ResolveListModeDefaulting(str) ==
    LET u == ToUpper(str)
    IN  CASE u = ONCE -> [mode |-> "ONCE", err |-> "nil"]
          [] u = POLL -> [mode |-> "POLL", err |-> "nil"]
          [] OTHER -> [mode |-> "STREAM", err |-> "nil"]
ResolveListMode(str) ==
    LET u == ToUpper(str)
    IN  CASE u = ONCE -> [mode |-> "ONCE", err |-> "nil"]
          [] u = POLL -> [mode |-> "POLL", err |-> "nil"]
          [] u = <<>> \/ u = STREAM -> [mode |-> "STREAM", err |-> "nil"]
          [] OTHER -> [mode |-> "STREAM", err |-> "subscribe mode invalid"]

\* Lines 295-307: the subscription mode of subscribeOptions.StreamMode
ResolveStreamMode(str) ==
    LET u == ToUpper(str)
    IN  CASE u = ON_CHANGE -> [mode |-> "ON_CHANGE", err |-> "nil"]
          [] u = SAMPLE -> [mode |-> "SAMPLE", err |-> "nil"]
          [] u = <<>> \/ u = TARGET_DEFINED -> [mode |-> "TARGET_DEFINED", err |-> "nil"]
          [] OTHER -> [mode |-> "TARGET_DEFINED", err |-> "subscribe stream mode invalid"]

\* Path segments: plain, with a key predicate, and with a predicate that is
\* not closed.
PathSpace == { <<"a">>, <<"a", "list5[key1=abc]">>, <<"a", "list5[key1">> }
PathLists == UNION { [1..n -> PathSpace] : n \in 0..MaxPaths }

\* A prefix string, as its segments and the "/" between them.
PrefixSpace == { <<>>, <<"/", "a", "/", "list5[key1=abc]">>, <<"/", "list5[key1">> }

NoPath == [Elem |-> <<>>, Origin |-> "", nil |-> TRUE]

\* utils.SplitPath: the segments of a path string.
SplitPath(str) == SelectSeq(str, LAMBDA x : x # "/")

\* utils.ParseGNMIElements: the structured path of a list of segments; a
\* segment whose predicate does not parse fails the whole path.
ParseElem(seg) ==
    CASE seg = "list5[key1=abc]" -> [Name |-> "list5", Key |-> <<"key1", "abc">>]
      [] OTHER -> [Name |-> seg, Key |-> <<>>]
ParseGNMIElements(elems) ==
    IF \E i \in DOMAIN elems : elems[i] = "list5[key1"
    THEN [path |-> NoPath, err |-> "malformed path predicate"]
    ELSE [path |-> [Elem |-> [i \in DOMAIN elems |-> ParseElem(elems[i])], Origin |-> "",
                    nil |-> FALSE],
          err |-> "nil"]

SubscribeOptionsSpace ==
    [Mode : ModeStrings, StreamMode : StreamModeStrings, Prefix : PrefixSpace,
     Paths : PathLists, UpdatesOnly : BOOLEAN, SampleInterval : {0, 15},
     HeartbeatInterval : {0, 15}, Origin : {"", "openconfig"}]

NoOptions == [nil |-> TRUE]
NoSubscribeRequest == [nil |-> TRUE]

\* Line 321: if err != nil
PathFailedNever(parsed) == FALSE
PathFailed(parsed) == parsed.err # "nil"

\* Lines 324-330: the subscription of one parsed path
NewSubscriptionSampled(options, streamMode, gnmiPath) ==
    [Path |-> [gnmiPath EXCEPT !.Origin = options.Origin],
     Mode |-> streamMode,
     SampleInterval |-> IF options.SampleInterval = 0 THEN 15 ELSE options.SampleInterval,
     HeartbeatInterval |-> options.HeartbeatInterval]
NewSubscription(options, streamMode, gnmiPath) ==
    [Path |-> [gnmiPath EXCEPT !.Origin = options.Origin],
     Mode |-> streamMode,
     SampleInterval |-> options.SampleInterval,
     HeartbeatInterval |-> options.HeartbeatInterval]

\* Line 325: subList.Subscription[i] = ...
PlaceSubscriptionFirst(subscription, sub) == <<sub>> \o subscription
PlaceSubscription(subscription, sub) == Append(subscription, sub)

\* Lines 319-331: the loop over subscribeOptions.Paths, from index i on, with
\* the subscriptions built so far; it returns at the first path that fails.
RECURSIVE BuildSubscriptions(_, _, _, _)
BuildSubscriptions(options, streamMode, i, subscription) ==
    IF i > Len(options.Paths) THEN [subscription |-> subscription, err |-> "nil"]
    ELSE LET parsed == ParseGNMIElements(options.Paths[i])
         IN  IF PathFailed(parsed) THEN [subscription |-> <<>>, err |-> parsed.err]
             ELSE BuildSubscriptions(options, streamMode, i + 1,
                      PlaceSubscription(subscription,
                                        NewSubscription(options, streamMode, parsed.path)))

\* Lines 280-334: the request and the error NewSubscribeRequest returns, with
\* the string its error names.
NewSubscribeRequest(options) ==
    LET mode == ResolveListMode(options.Mode)
        streamMode == ResolveStreamMode(options.StreamMode)
        prefixPath == ParseGNMIElements(SplitPath(options.Prefix))
        built == BuildSubscriptions(options, streamMode.mode, 1, <<>>)
        Failure(e, arg) == [request |-> NoSubscribeRequest, err |-> e, arg |-> arg]
    IN  IF mode.err # "nil" THEN Failure(mode.err, options.Mode)
        ELSE IF streamMode.err # "nil" THEN Failure(streamMode.err, options.StreamMode)
        ELSE IF prefixPath.err # "nil" THEN Failure(prefixPath.err, NoText)
        ELSE IF built.err # "nil" THEN Failure(built.err, NoText)
        ELSE [request |-> [Mode |-> mode.mode, UpdatesOnly |-> options.UpdatesOnly,
                           Prefix |-> prefixPath.path, Subscription |-> built.subscription,
                           nil |-> FALSE],
              err |-> "nil", arg |-> NoText]

\* ------------------------------------------------------------------ devices

NewVersionedID(id, version) == <<id, version>>

PlainTLS == [Plain |-> TRUE, Insecure |-> FALSE, CaCert |-> "", Cert |-> "", Key |-> ""]
CredTLS == [Plain |-> FALSE, Insecure |-> FALSE, CaCert |-> "ca.crt", Cert |-> "cert path", Key |-> ""]

Devices ==
    { [ID |-> "dev", Version |-> "1.0.0", Address |-> "localhost:10161", Target |-> "tgt1",
       Timeout |-> NoTimeout, TLS |-> PlainTLS, Credentials |-> [User |-> "", Password |-> ""]],
      [ID |-> "dev", Version |-> "2.0.0", Address |-> "localhost:10162", Target |-> "tgt2",
       Timeout |-> <<5>>, TLS |-> CredTLS, Credentials |-> [User |-> "User", Password |-> "Password"]] }

Keys == { NewVersionedID(dv.ID, dv.Version) : dv \in Devices }

\* Every descriptor of one device that createDestination may be given: all
\* combinations of the TLS flags, the paths and the credentials.
DeviceSpace ==
    { [ID |-> "dev", Version |-> "1.0.0", Address |-> "localhost:10161", Target |-> "tgt1",
       Timeout |-> NoTimeout, TLS |-> tls, Credentials |-> cred] :
      tls \in [Plain : BOOLEAN, Insecure : BOOLEAN, CaCert : {"", "ca.crt"},
               Cert : {"", "client.crt", "missing.crt"}, Key : {"", "client.key"}],
      cred \in [User : {"", "User"}, Password : {"", "Password"}] }

\* The files that can be read and hold what their names say.
ReadableFiles == {"ca.crt", "client.crt", "client.key"}

NoPool == <<>>
ZeroCertificate == <<"keypair", "", "">>

\* A pool with the embedded CA; a pool with the CA of the file, empty when the
\* file cannot be read; the key pair of two files, the zero certificate when
\* they cannot be loaded. The failures are logged only.
getCertPoolDefault == <<"pool", "onfca">>
getCertPool(CaPath) == IF CaPath \in ReadableFiles THEN <<"pool", CaPath>> ELSE <<"pool">>
setCertificate(pathCert, pathKey) ==
    IF pathCert \in ReadableFiles /\ pathKey \in ReadableFiles
    THEN <<"keypair", pathCert, pathKey>>
    ELSE ZeroCertificate
DefaultClientCerts == <<"keypair", "DefaultClientCrt", "DefaultClientKey">>

\* Line 57: if device.TLS.Plain
PlainConnectionUnlessInsecure(device) == device.TLS.Plain /\ ~device.TLS.Insecure
PlainConnection(device) == device.TLS.Plain

\* Lines 60-66: &tls.Config{}, or &tls.Config{InsecureSkipVerify: true}
InitialTLSVerifying(device) == [InsecureSkipVerify |-> FALSE, RootCAs |-> NoPool, Certificates |-> <<>>]
InitialTLS(device) ==
    [InsecureSkipVerify |-> device.TLS.Insecure, RootCAs |-> NoPool, Certificates |-> <<>>]

\* Lines 67-72
RootCAs(device) ==
    IF device.TLS.CaCert = "" THEN getCertPoolDefault ELSE getCertPool(device.TLS.CaCert)

\* The conditions of lines 73, 81 and 84
UsesDefaultCerts(device) == device.TLS.Cert = "" /\ device.TLS.Key = ""
UsesDeviceCertsUnlessCredentials(device) ==
    /\ device.TLS.Cert # "" /\ device.TLS.Key # ""
    /\ ~(device.Credentials.User # "" /\ device.Credentials.Password # "")
UsesDeviceCerts(device) == device.TLS.Cert # "" /\ device.TLS.Key # ""
UsesCredentials(device) == device.Credentials.User # "" /\ device.Credentials.Password # ""

\* Line 92: d.TLS = &tls.Config{InsecureSkipVerify: true}
DegradedTLSUnchanged(config) == config
DegradedTLS(config) == [InsecureSkipVerify |-> TRUE, RootCAs |-> NoPool, Certificates |-> <<>>]

\* The TLS descriptor and the credentials createDestination resolves.
ResolveTLS(device) ==
    LET base == [InitialTLS(device) EXCEPT !.RootCAs = RootCAs(device)]
    IN  IF PlainConnection(device) THEN [TLS |-> NoTLS, Credentials |-> NoCredentials]
        ELSE IF UsesDefaultCerts(device)
             THEN [TLS |-> [base EXCEPT !.Certificates = <<DefaultClientCerts>>], Credentials |-> NoCredentials]
        ELSE IF UsesDeviceCerts(device)
             THEN [TLS |-> [base EXCEPT !.Certificates = <<setCertificate(device.TLS.Cert, device.TLS.Key)>>],
                   Credentials |-> NoCredentials]
        ELSE IF UsesCredentials(device)
             THEN [TLS |-> base,
                   Credentials |-> [Username |-> device.Credentials.User,
                                    Password |-> device.Credentials.Password]]
        ELSE [TLS |-> DegradedTLS(base), Credentials |-> NoCredentials]

createDestination(device) ==
    LET r == ResolveTLS(device)
    IN  [d |-> [Addrs |-> <<device.Address>>,
                Timeout |-> IF device.Timeout # NoTimeout THEN device.Timeout[1] ELSE 0,
                Target |-> device.Target,
                Credentials |-> r.Credentials,
                TLS |-> r.TLS],
         key |-> NewVersionedID(device.ID, device.Version)]

\* The zero value of client.Destination, the dest of a fresh Target.
ZeroDest == [Addrs |-> <<>>, Timeout |-> 0, Target |-> "", Credentials |-> NoCredentials, TLS |-> NoTLS]

\* -------------------------------------------------------------------- state

VARIABLES
    targets,     \* the targets map: key -> Target, NoTarget where the key is absent
    targetMu,    \* the RWMutex of the map: [w |-> thread or NoThread, r |-> set of threads]
    mu,          \* Target.mu of every Target, same shape
    clt,         \* Target.clt: Nil, a client, or Torn while the interface words are written
    dest,        \* Target.dest
    ctx,         \* Target.ctx: the context (named by its caller) of the last connect
    closed,      \* how many times Close was called on each client
    dials,       \* clients GnmiClientFactory has returned so far
    bases,       \* base clients GnmiBaseClientFactory has returned so far
    subs,        \* the subscriptions issued, in order: the target and the client handle
    closeCalls,  \* Target.Close calls made so far
    pc,          \* where every goroutine stands
    loc,         \* every goroutine's local variables
    ret,         \* the call return the last step made, NoRet when it made none
    crash,       \* the fatal error or panic that ended the process, if any
    lastConn,    \* history: per key, the last ConnectTarget that returned it: its target, its
                 \* client, and the client of the one that had returned when it was called
    dialKey      \* history: the key of the device every client was dialed for

vars == <<targets, targetMu, mu, clt, dest, ctx, closed, dials, bases, subs, closeCalls,
          pc, loc, ret, crash, lastConn, dialKey>>

shared == <<targets, targetMu, mu, clt, dest, ctx, closed, dials, bases, subs, closeCalls,
            crash, lastConn, dialKey>>

NoLock == [w |-> NoThread, r |-> {}]
NoDevice == [ID |-> "", Version |-> ""]
NoConn == [t |-> NoTarget, c |-> Nil, prev |-> Nil]
NoCrash == [why |-> "none", op |-> "none"]
NoRet == [th |-> NoThread, op |-> "none", t |-> NoTarget, device |-> NoDevice, key |-> NoKey,
          err |-> "none", on |-> Nil, names |-> {}, request |-> NoText, code |-> "none",
          resp |-> NoResponse, calls |-> 0, rpc |-> NoRpc, dialed |-> ZeroDest,
          options |-> NoOptions, subscribe |-> NoSubscribeRequest, arg |-> NoText]
Idle == [op |-> "none", t |-> NoTarget, device |-> NoDevice, key |-> NoKey, d |-> ZeroDest, c |-> Nil,
         old |-> Nil, got |-> Nil, q |-> ZeroDest, first |-> Nil, request |-> NoText,
         req |-> NoRequest, options |-> NoOptions]

Init ==
    /\ targets = [k \in Keys |-> NoTarget]
    /\ targetMu = NoLock
    /\ mu = [t \in Targets |-> NoLock]
    /\ clt = [t \in Targets |-> Nil]
    /\ dest = [t \in Targets |-> ZeroDest]
    /\ ctx = [t \in Targets |-> NoCtx]
    /\ closed = [c \in Clients |-> 0]
    /\ dials = 0
    /\ bases = 0
    /\ subs = <<>>
    /\ closeCalls = 0
    /\ pc = [th \in Threads |-> "idle"]
    /\ loc = [th \in Threads |-> Idle]
    /\ ret = NoRet
    /\ crash = NoCrash
    /\ lastConn = [k \in Keys |-> NoConn]
    /\ dialKey = [c \in Clients |-> NoKey]

Running == crash = NoCrash

\* sync.RWMutex
CanLock(m) == m.w = NoThread /\ m.r = {}
CanRLockNoWriterCheck(m) == TRUE
CanRLock(m) == m.w = NoThread

Goto(th, label) == pc' = [pc EXCEPT ![th] = label]
Return(th, r) ==
    /\ pc' = [pc EXCEPT ![th] = "idle"]
    /\ loc' = [loc EXCEPT ![th] = Idle]
    /\ ret' = [r EXCEPT !.th = th]

\* ------------------------------------------------------ the client factories

\* GnmiClientFactory(ctx, dest): dials the destination and returns a new client,
\* or an error.
GnmiClientFactory(context, d) ==
    { [c |-> Client(dials + 1), err |-> "nil"], [c |-> Nil, err |-> "dial failed"] }

\* GnmiBaseClientFactory(): a new base client for one subscription.
GnmiBaseClientFactory == BaseClient(bases + 1)

\* ------------------------------------------------------ the map's data races

\* A Go map is not safe for concurrent use: a write that runs unordered with
\* another access is a data race, which the runtime may answer with
\* "fatal error: concurrent map read and map write" (or "... map writes").
MapReadPcs == {"gt_read", "gt_enum"}
MapWritePcs == {"ct_store", "nti_store"}
MapAccessPcs == MapReadPcs \cup MapWritePcs

MapRace(th) ==
    /\ pc[th] \in MapAccessPcs
    /\ \E o \in Threads \ {th} :
          /\ pc[o] \in MapAccessPcs
          /\ pc[th] \in MapWritePcs \/ pc[o] \in MapWritePcs

MapRaceFatal(th) ==
    /\ Running
    /\ MapRace(th)
    /\ crash' = [why |-> "concurrent map access", op |-> loc[th].op]
    /\ ret' = NoRet
    /\ UNCHANGED <<targets, targetMu, mu, clt, dest, ctx, closed, dials, bases, subs,
                   closeCalls, pc, loc, lastConn, dialKey>>

\* ------------------------------------------------------------ ConnectTarget

\* ConnectTargetFail, had the held client been closed before the dial.
ConnectTargetFailClosing(th, t, device) ==
    /\ Running
    /\ pc[th] = "idle"
    /\ LET r == createDestination(device)
       IN  \E res \in GnmiClientFactory(th, r.d) :
              /\ res.err # "nil"
              /\ Return(th, [NoRet EXCEPT !.op = "ConnectTarget", !.t = t, !.key = NoKey,
                                          !.err = "could not create a gNMI client",
                                          !.device = device, !.dialed = r.d])
    /\ closed' = IF clt[t] \in Clients THEN [closed EXCEPT ![clt[t]] = @ + 1] ELSE closed
    /\ UNCHANGED <<targets, targetMu, mu, clt, dest, ctx, dials, bases, subs, closeCalls,
                   crash, lastConn, dialKey>>

\* Lines 117-123, the factory failing: the error and an empty key.
ConnectTargetFail(th, t, device) ==
    /\ Running
    /\ pc[th] = "idle"
    /\ LET r == createDestination(device)
       IN  \E res \in GnmiClientFactory(th, r.d) :
              /\ res.err # "nil"
              /\ Return(th, [NoRet EXCEPT !.op = "ConnectTarget", !.t = t, !.key = NoKey,
                                          !.err = "could not create a gNMI client",
                                          !.device = device, !.dialed = r.d])
    /\ UNCHANGED shared

\* Lines 117-123, the factory returning a client.
ConnectTargetDial(th, t, device) ==
    /\ Running
    /\ pc[th] = "idle"
    /\ dials < MaxClients
    /\ LET r == createDestination(device)
       IN  \E res \in GnmiClientFactory(th, r.d) :
              /\ res.err = "nil"
              /\ loc' = [loc EXCEPT ![th] = [Idle EXCEPT !.op = "ConnectTarget", !.t = t, !.device = device,
                                                         !.key = r.key, !.d = r.d, !.c = res.c,
                                                         !.first = lastConn[r.key].c]]
    /\ dials' = dials + 1
    /\ dialKey' = [dialKey EXCEPT ![Client(dials + 1)] = createDestination(device).key]
    /\ Goto(th, "ct_lock")
    /\ ret' = NoRet
    /\ UNCHANGED <<targets, targetMu, mu, clt, dest, ctx, closed, bases, subs, closeCalls,
                   crash, lastConn>>

\* Line 125: target.mu.Lock()
CTLock(th) ==
    /\ Running
    /\ pc[th] = "ct_lock"
    /\ CanLock(mu[loc[th].t])
    /\ mu' = [mu EXCEPT ![loc[th].t].w = th]
    /\ Goto(th, "ct_close")
    /\ ret' = NoRet
    /\ UNCHANGED <<targets, targetMu, clt, dest, ctx, closed, dials, bases, subs, closeCalls,
                   loc, crash, lastConn, dialKey>>

\* Lines 126-129: close the client the target holds, if any.
CTClosePrevious(th) ==
    /\ Running
    /\ pc[th] = "ct_close"
    /\ LET old == clt[loc[th].t]
       IN  /\ closed' = IF old \in Clients THEN [closed EXCEPT ![old] = @ + 1] ELSE closed
           /\ loc' = [loc EXCEPT ![th].old = old]
    /\ Goto(th, "ct_dest")
    /\ ret' = NoRet
    /\ UNCHANGED <<targets, targetMu, mu, clt, dest, ctx, dials, bases, subs, closeCalls,
                   crash, lastConn, dialKey>>

\* Line 131: target.dest = *dest
CTStoreDest(th) ==
    /\ Running
    /\ pc[th] = "ct_dest"
    /\ dest' = [dest EXCEPT ![loc[th].t] = loc[th].d]
    /\ Goto(th, "ct_clt")
    /\ ret' = NoRet
    /\ UNCHANGED <<targets, targetMu, mu, clt, ctx, closed, dials, bases, subs, closeCalls,
                   loc, crash, lastConn, dialKey>>

\* Line 132: target.clt = c. An interface value is two words, written one
\* after the other: between the two writes the field is neither value.
CTStoreCltBegin(th) ==
    /\ Running
    /\ pc[th] = "ct_clt"
    /\ clt' = [clt EXCEPT ![loc[th].t] = Torn]
    /\ Goto(th, "ct_clt2")
    /\ ret' = NoRet
    /\ UNCHANGED <<targets, targetMu, mu, dest, ctx, closed, dials, bases, subs, closeCalls,
                   loc, crash, lastConn, dialKey>>

CTStoreCltEnd(th) ==
    /\ Running
    /\ pc[th] = "ct_clt2"
    /\ clt' = [clt EXCEPT ![loc[th].t] = loc[th].c]
    /\ UNCHANGED loc
    /\ Goto(th, "ct_ctx")
    /\ ret' = NoRet
    /\ UNCHANGED <<targets, targetMu, mu, dest, ctx, closed, dials, bases, subs, closeCalls,
                   crash, lastConn, dialKey>>

\* Line 133: target.ctx = ctx
CTStoreCtx(th) ==
    /\ Running
    /\ pc[th] = "ct_ctx"
    /\ ctx' = [ctx EXCEPT ![loc[th].t] = th]
    /\ Goto(th, "ct_unlock")
    /\ ret' = NoRet
    /\ UNCHANGED <<targets, targetMu, mu, clt, dest, closed, dials, bases, subs, closeCalls,
                   loc, crash, lastConn, dialKey>>

\* Line 134: target.mu.Unlock()
CTUnlock(th) ==
    /\ Running
    /\ pc[th] = "ct_unlock"
    /\ mu' = [mu EXCEPT ![loc[th].t].w = NoThread]
    /\ loc' = [loc EXCEPT ![th].old = Nil]
    /\ Goto(th, "ct_reglock")
    /\ ret' = NoRet
    /\ UNCHANGED <<targets, targetMu, clt, dest, ctx, closed, dials, bases, subs, closeCalls,
                   crash, lastConn, dialKey>>

\* Line 136: targetMu.Lock()
CTRegLock(th) ==
    /\ Running
    /\ pc[th] = "ct_reglock"
    /\ CanLock(targetMu)
    /\ targetMu' = [targetMu EXCEPT !.w = th]
    /\ Goto(th, "ct_store")
    /\ ret' = NoRet
    /\ UNCHANGED <<targets, mu, clt, dest, ctx, closed, dials, bases, subs, closeCalls,
                   loc, crash, lastConn, dialKey>>

\* CTRegStore, had it kept an entry the map already holds.
CTRegStoreIfAbsent(th) ==
    /\ Running
    /\ pc[th] = "ct_store"
    /\ targets' = IF targets[loc[th].key] = NoTarget
                  THEN [targets EXCEPT ![loc[th].key] = loc[th].t]
                  ELSE targets
    /\ Goto(th, "ct_regunlock")
    /\ ret' = NoRet
    /\ UNCHANGED <<targetMu, mu, clt, dest, ctx, closed, dials, bases, subs, closeCalls,
                   loc, crash, lastConn, dialKey>>

\* Line 137: targets[key] = target
CTRegStore(th) ==
    /\ Running
    /\ pc[th] = "ct_store"
    /\ targets' = [targets EXCEPT ![loc[th].key] = loc[th].t]
    /\ Goto(th, "ct_regunlock")
    /\ ret' = NoRet
    /\ UNCHANGED <<targetMu, mu, clt, dest, ctx, closed, dials, bases, subs, closeCalls,
                   loc, crash, lastConn, dialKey>>

\* Lines 138-139: targetMu.Unlock(); return key, err
CTRegUnlock(th) ==
    /\ Running
    /\ pc[th] = "ct_regunlock"
    /\ targetMu' = [targetMu EXCEPT !.w = NoThread]
    /\ lastConn' = [lastConn EXCEPT ![loc[th].key] = [t |-> loc[th].t, c |-> loc[th].c,
                                                     prev |-> loc[th].first]]
    /\ Return(th, [NoRet EXCEPT !.op = "ConnectTarget", !.t = loc[th].t, !.key = loc[th].key,
                                !.err = "nil", !.device = loc[th].device,
                                !.dialed = loc[th].d])
    /\ UNCHANGED <<targets, mu, clt, dest, ctx, closed, dials, bases, subs, closeCalls, crash,
                   dialKey>>

\* ---------------------------------------------------------------- GetTarget

\* The lookup of lines 101 and 103-105 on a map value.
Lookup(m, key) == [t |-> m[key], ok |-> m[key] # NoTarget]

\* Line 100: targetMu.RLock()
GTRLock(th, key) ==
    /\ Running
    /\ pc[th] = "idle"
    /\ CanRLock(targetMu)
    /\ targetMu' = [targetMu EXCEPT !.r = @ \cup {th}]
    /\ loc' = [loc EXCEPT ![th] = [Idle EXCEPT !.op = "GetTarget", !.key = key]]
    /\ Goto(th, "gt_read")
    /\ ret' = NoRet
    /\ UNCHANGED <<targets, mu, clt, dest, ctx, closed, dials, bases, subs, closeCalls,
                   crash, lastConn, dialKey>>

\* Line 101: t, ok := targets[key]
GTRead(th) ==
    /\ Running
    /\ pc[th] = "gt_read"
    /\ loc' = [loc EXCEPT ![th].t = Lookup(targets, loc[th].key).t]
    /\ Goto(th, "gt_runlock")
    /\ ret' = NoRet
    /\ UNCHANGED shared

\* Lines 102-105: targetMu.RUnlock(); if ok { return t, nil }
GTRUnlock(th) ==
    /\ Running
    /\ pc[th] = "gt_runlock"
    /\ targetMu' = [targetMu EXCEPT !.r = @ \ {th}]
    /\ IF loc[th].t # NoTarget
       THEN Return(th, [NoRet EXCEPT !.op = "GetTarget", !.t = loc[th].t, !.key = loc[th].key,
                                     !.err = "nil"])
       ELSE /\ Goto(th, "gt_enum")
            /\ ret' = NoRet
            /\ UNCHANGED loc
    /\ UNCHANGED <<targets, mu, clt, dest, ctx, closed, dials, bases, subs, closeCalls,
                   crash, lastConn, dialKey>>

\* Lines 106-110: the keys of the map are read, with no lock held, into the
\* error that is returned.
GTEnum(th) ==
    /\ Running
    /\ pc[th] = "gt_enum"
    /\ Return(th, [NoRet EXCEPT !.op = "GetTarget", !.t = NoTarget, !.key = loc[th].key,
                                !.err = "does not exist",
                                !.names = { k \in Keys : targets[k] # NoTarget }])
    /\ UNCHANGED shared

\* ------------------------------------------------------------ NewTargetItem

NTICall(th, key, t) ==
    /\ Running
    /\ pc[th] = "idle"
    /\ loc' = [loc EXCEPT ![th] = [Idle EXCEPT !.op = "NewTargetItem", !.key = key, !.t = t]]
    /\ Goto(th, "nti_store")
    /\ ret' = NoRet
    /\ UNCHANGED shared

\* Line 47: targets[deviceID] = target, with no lock held.
NTIStore(th) ==
    /\ Running
    /\ pc[th] = "nti_store"
    /\ targets' = [targets EXCEPT ![loc[th].key] = loc[th].t]
    /\ Return(th, [NoRet EXCEPT !.op = "NewTargetItem", !.t = loc[th].t, !.key = loc[th].key,
                                !.err = "nil"])
    /\ UNCHANGED <<targetMu, mu, clt, dest, ctx, closed, dials, bases, subs, closeCalls,
                   crash, lastConn, dialKey>>

\* ------------------------------------------- Client(), the unary calls, Close

UnaryOps == {"Capabilities", "Get", "Set"}
WithStringOps == {"CapabilitiesWithString", "GetWithString", "SetWithString"}

\* The method a string form delegates to, and the message of a method.
MethodOf(op) ==
    CASE op = "CapabilitiesWithString" -> "Capabilities"
      [] op = "GetWithString" -> "Get"
      [] op = "SetWithString" -> "Set"
      [] OTHER -> op
MessageOf(method) ==
    CASE method = "Capabilities" -> "CapabilityRequest"
      [] method = "Get" -> "GetRequest"
      [] method = "Set" -> "SetRequest"

\* What a method of the client can answer: a response and no error, an error,
\* or an error next to a response.
RpcOutcomes(method) ==
    LET response == CASE method = "Capabilities" -> <<"CapabilityResponse", "1.0">>
                      [] method = "Get" -> <<"GetResponse">>
                      [] method = "Set" -> <<"SetResponse", "DELETE">>
    IN  { [resp |-> response, err |-> "nil"],
          [resp |-> NoResponse, err |-> "rpc error"],
          [resp |-> response, err |-> "rpc error"] }

\* Line 269: target.mu.RLock(), entered from a unary call (Capabilities, Get or
\* Set, lines 182, 204, 226: the three differ in the method they call only) or
\* from Close (line 276).
ClientRLock(th, t, op) ==
    /\ Running
    /\ pc[th] = "idle"
    /\ op = "Close" => closeCalls < MaxCloseCalls
    /\ CanRLock(mu[t])
    /\ mu' = [mu EXCEPT ![t].r = @ \cup {th}]
    /\ closeCalls' = IF op = "Close" THEN closeCalls + 1 ELSE closeCalls
    /\ loc' = [loc EXCEPT ![th] = [Idle EXCEPT !.op = op, !.t = t]]
    /\ Goto(th, "cl_read")
    /\ ret' = NoRet
    /\ UNCHANGED <<targets, targetMu, clt, dest, ctx, closed, dials, bases, subs, crash, lastConn, dialKey>>

\* Line 271: the value of target.clt is read for the return.
ClientRead(th) ==
    /\ Running
    /\ pc[th] = "cl_read"
    /\ loc' = [loc EXCEPT ![th].got = clt[loc[th].t]]
    /\ Goto(th, "cl_runlock")
    /\ ret' = NoRet
    /\ UNCHANGED shared

\* Line 270: the deferred target.mu.RUnlock()
ClientRUnlock(th) ==
    /\ Running
    /\ pc[th] = "cl_runlock"
    /\ mu' = [mu EXCEPT ![loc[th].t].r = @ \ {th}]
    /\ Goto(th, "cl_call")
    /\ ret' = NoRet
    /\ UNCHANGED <<targets, targetMu, clt, dest, ctx, closed, dials, bases, subs, closeCalls,
                   loc, crash, lastConn, dialKey>>

\* Lines 182, 204, 226, 276: a method called on a nil interface value panics,
\* and nothing recovers the panic.
NilClientPanic(th) ==
    /\ Running
    /\ pc[th] = "cl_call"
    /\ loc[th].got \notin Clients
    /\ crash' = [why |-> "nil pointer dereference", op |-> loc[th].op]
    /\ ret' = NoRet
    /\ UNCHANGED <<targets, targetMu, mu, clt, dest, ctx, closed, dials, bases, subs,
                   closeCalls, pc, loc, lastConn, dialKey>>

\* The return of a unary call that made n calls on the client, the last of
\* them answered by out: lines 183-186, 205-208, 227-230.
UnaryReturn(th, op, method, req, out, n) ==
    Return(th, [NoRet EXCEPT !.op = op, !.t = loc[th].t, !.on = loc[th].got,
                             !.request = loc[th].request, !.calls = n,
                             !.rpc = [method |-> method, req |-> req, resp |-> out.resp,
                                      err |-> out.err],
                             !.resp = IF out.err # "nil" THEN NoResponse ELSE out.resp,
                             !.err = IF out.err # "nil" THEN "target returned RPC error"
                                     ELSE "nil",
                             !.code = IF out.err # "nil" THEN "Unknown" ELSE "none"])

\* UnaryCall, had it called the client again after an error.
UnaryCallRetrying(th) ==
    /\ Running
    /\ pc[th] = "cl_call"
    /\ loc[th].op \in {"Unary"} \cup WithStringOps
    /\ loc[th].got \in Clients
    /\ \E method \in UnaryOps : \E first \in RpcOutcomes(method), out \in RpcOutcomes(method) :
          /\ loc[th].op # "Unary" => method = MethodOf(loc[th].op)
          /\ first.err = "nil" => out = first
          /\ UnaryReturn(th, IF loc[th].op = "Unary" THEN method ELSE loc[th].op, method,
                         IF loc[th].op = "Unary" THEN [msg |-> MessageOf(method), fields |-> <<>>]
                         ELSE loc[th].req,
                         out, IF first.err = "nil" THEN 1 ELSE 2)
    /\ UNCHANGED shared

\* Lines 182-186, 204-208, 226-230: one call on the client Client() returned,
\* with the request of the caller (or the one the string form parsed); its
\* error wrapped, its response returned.
UnaryCall(th) ==
    /\ Running
    /\ pc[th] = "cl_call"
    /\ loc[th].op \in {"Unary"} \cup WithStringOps
    /\ loc[th].got \in Clients
    /\ \E method \in UnaryOps : \E out \in RpcOutcomes(method) :
          /\ loc[th].op # "Unary" => method = MethodOf(loc[th].op)
          /\ UnaryReturn(th, IF loc[th].op = "Unary" THEN method ELSE loc[th].op, method,
                         IF loc[th].op = "Unary" THEN [msg |-> MessageOf(method), fields |-> <<>>]
                         ELSE loc[th].req,
                         out, 1)
    /\ UNCHANGED shared

\* ------------------------------------------------------- the string forms

\* Lines 191 and 213: GetWithString and SetWithString refuse the empty string;
\* CapabilitiesWithString has no such test.
RejectsEmptyNever(op, request) == FALSE
RejectsEmptyAlways(op, request) == request = EmptyText
RejectsEmpty(op, request) == op \in {"GetWithString", "SetWithString"} /\ request = EmptyText

\* Lines 191-193, 213-215: errors.NewInvalid("cannot get an empty request")
WithStringEmpty(th, t, op, request) ==
    /\ Running
    /\ pc[th] = "idle"
    /\ RejectsEmpty(op, request)
    /\ Return(th, [NoRet EXCEPT !.op = op, !.t = t, !.request = request, !.code = "Invalid",
                                !.err = IF op = "GetWithString" THEN "cannot get an empty request"
                                        ELSE "cannot set an empty request"])
    /\ UNCHANGED shared

\* Lines 174-176, 196-198, 218-220: proto.UnmarshalText fails; the error is one
\* of fmt.Errorf, which carries no type.
WithStringUnparsable(th, t, op, request) ==
    /\ Running
    /\ pc[th] = "idle"
    /\ ~RejectsEmpty(op, request)
    /\ UnmarshalText(request, MessageOf(MethodOf(op))).err # "nil"
    /\ Return(th, [NoRet EXCEPT !.op = op, !.t = t, !.request = request, !.code = "Unknown",
                                !.err = "unable to parse gnmi." \o MessageOf(MethodOf(op))])
    /\ UNCHANGED shared

\* Lines 177, 199, 221: the parsed request is passed to Capabilities, Get or
\* Set, which begins with target.Client(): line 269, target.mu.RLock()
WithStringRLock(th, t, op, request) ==
    /\ Running
    /\ pc[th] = "idle"
    /\ ~RejectsEmpty(op, request)
    /\ LET parsed == UnmarshalText(request, MessageOf(MethodOf(op)))
       IN  /\ parsed.err = "nil"
           /\ loc' = [loc EXCEPT ![th] = [Idle EXCEPT !.op = op, !.t = t, !.request = request,
                                                      !.req = parsed.r]]
    /\ CanRLock(mu[t])
    /\ mu' = [mu EXCEPT ![t].r = @ \cup {th}]
    /\ Goto(th, "cl_read")
    /\ ret' = NoRet
    /\ UNCHANGED <<targets, targetMu, clt, dest, ctx, closed, dials, bases, subs, closeCalls,
                   crash, lastConn, dialKey>>

\* CloseCall, had it taken the Target out of the map.
CloseCallUnregister(th) ==
    /\ Running
    /\ pc[th] = "cl_call"
    /\ loc[th].op = "Close"
    /\ loc[th].got \in Clients
    /\ closed' = [closed EXCEPT ![loc[th].got] = @ + 1]
    /\ targets' = [k \in Keys |-> IF targets[k] = loc[th].t THEN NoTarget ELSE targets[k]]
    /\ Return(th, [NoRet EXCEPT !.op = "Close", !.t = loc[th].t, !.on = loc[th].got,
                                !.err = "nil"])
    /\ UNCHANGED <<targetMu, mu, clt, dest, ctx, dials, bases, subs, closeCalls,
                   crash, lastConn, dialKey>>

\* Line 276: Close() on the client Client() returned.
CloseCall(th) ==
    /\ Running
    /\ pc[th] = "cl_call"
    /\ loc[th].op = "Close"
    /\ loc[th].got \in Clients
    /\ closed' = [closed EXCEPT ![loc[th].got] = @ + 1]
    /\ Return(th, [NoRet EXCEPT !.op = "Close", !.t = loc[th].t, !.on = loc[th].got,
                                !.err = "nil"])
    /\ UNCHANGED <<targets, targetMu, mu, clt, dest, ctx, dials, bases, subs, closeCalls,
                   crash, lastConn, dialKey>>

\* ---------------------------------------------------------------- Subscribe

\* Lines 239-242: client.NewQuery refuses the request.
SubscribeBadQuery(th, t) ==
    /\ Running
    /\ pc[th] = "idle"
    /\ Return(th, [NoRet EXCEPT !.op = "Subscribe", !.t = t, !.err = "bad query"])
    /\ UNCHANGED shared

\* Lines 239-243: the query is built; q.Addrs = target.Destination().Addrs
SubReadAddrs(th, t) ==
    /\ Running
    /\ pc[th] = "idle"
    /\ bases < MaxSubs
    /\ loc' = [loc EXCEPT ![th] = [Idle EXCEPT !.op = "Subscribe", !.t = t,
                                               !.q.Addrs = dest[t].Addrs]]
    /\ Goto(th, "sub_timeout")
    /\ ret' = NoRet
    /\ UNCHANGED shared

\* Line 244
SubReadTimeout(th) ==
    /\ Running
    /\ pc[th] = "sub_timeout"
    /\ loc' = [loc EXCEPT ![th].q.Timeout = dest[loc[th].t].Timeout]
    /\ Goto(th, "sub_target")
    /\ ret' = NoRet
    /\ UNCHANGED shared

\* Line 245
SubReadTarget(th) ==
    /\ Running
    /\ pc[th] = "sub_target"
    /\ loc' = [loc EXCEPT ![th].q.Target = dest[loc[th].t].Target]
    /\ Goto(th, "sub_cred")
    /\ ret' = NoRet
    /\ UNCHANGED shared

\* Line 246
SubReadCredentials(th) ==
    /\ Running
    /\ pc[th] = "sub_cred"
    /\ loc' = [loc EXCEPT ![th].q.Credentials = dest[loc[th].t].Credentials]
    /\ Goto(th, "sub_tls")
    /\ ret' = NoRet
    /\ UNCHANGED shared

\* Line 247
SubReadTLS(th) ==
    /\ Running
    /\ pc[th] = "sub_tls"
    /\ loc' = [loc EXCEPT ![th].q.TLS = dest[loc[th].t].TLS]
    /\ Goto(th, "sub_open")
    /\ ret' = NoRet
    /\ UNCHANGED shared

\* SubOpen, had it subscribed on the client the target holds.
SubOpenPooled(th) ==
    /\ Running
    /\ pc[th] = "sub_open"
    /\ LET c == clt[loc[th].t]
       IN  /\ subs' = Append(subs, [t |-> loc[th].t, on |-> c])
           /\ \E subErr \in {"nil", "subscribe error"} :
                 Return(th, [NoRet EXCEPT !.op = "Subscribe", !.t = loc[th].t, !.on = c,
                                          !.err = IF subErr = "nil" THEN "nil"
                                                  ELSE "could not create a gNMI for subscription"])
    /\ bases' = bases + 1
    /\ UNCHANGED <<targets, targetMu, mu, clt, dest, ctx, closed, dials, closeCalls,
                   crash, lastConn, dialKey>>

\* Lines 249-254: c := GnmiBaseClientFactory(); err = c.Subscribe(ctx, q, "gnmi")
SubOpen(th) ==
    /\ Running
    /\ pc[th] = "sub_open"
    /\ LET c == GnmiBaseClientFactory
       IN  /\ subs' = Append(subs, [t |-> loc[th].t, on |-> c])
           /\ \E subErr \in {"nil", "subscribe error"} :
                 Return(th, [NoRet EXCEPT !.op = "Subscribe", !.t = loc[th].t, !.on = c,
                                          !.err = IF subErr = "nil" THEN "nil"
                                                  ELSE "could not create a gNMI for subscription"])
    /\ bases' = bases + 1
    /\ UNCHANGED <<targets, targetMu, mu, clt, dest, ctx, closed, dials, closeCalls,
                   crash, lastConn, dialKey>>

\* ------------------------------------------------------ NewSubscribeRequest

\* A goroutine calls NewSubscribeRequest(options).
NewSubscribeRequestCall(th, options) ==
    /\ Running
    /\ pc[th] = "idle"
    /\ loc' = [loc EXCEPT ![th] = [Idle EXCEPT !.op = "NewSubscribeRequest", !.options = options]]
    /\ Goto(th, "nsr")
    /\ ret' = NoRet
    /\ UNCHANGED shared

\* Lines 280-334: the function touches no shared state; it returns a request
\* or an error.
NewSubscribeRequestReturn(th) ==
    /\ Running
    /\ pc[th] = "nsr"
    /\ LET r == NewSubscribeRequest(loc[th].options)
       IN  Return(th, [NoRet EXCEPT !.op = "NewSubscribeRequest", !.options = loc[th].options,
                                   !.subscribe = r.request, !.err = r.err, !.arg = r.arg])
    /\ UNCHANGED shared

\* ------------------------------------------------------------ specification

\* The steps of goroutine th in ConnectTarget calls on the targets ts for the
\* devices devs.
ConnectStepOn(th, ts, devs) ==
    \/ \E t \in ts, device \in devs : ConnectTargetFail(th, t, device)
    \/ \E t \in ts, device \in devs : ConnectTargetDial(th, t, device)
    \/ CTLock(th)
    \/ CTClosePrevious(th)
    \/ CTStoreDest(th)
    \/ CTStoreCltBegin(th)
    \/ CTStoreCltEnd(th)
    \/ CTStoreCtx(th)
    \/ CTUnlock(th)
    \/ CTRegLock(th)
    \/ CTRegStore(th)
    \/ CTRegUnlock(th)

ConnectStep(th) == ConnectStepOn(th, Targets, Devices)

LookupStep(th) ==
    \/ \E key \in Keys : GTRLock(th, key)
    \/ GTRead(th)
    \/ GTRUnlock(th)
    \/ GTEnum(th)
    \/ MapRaceFatal(th)

ItemStep(th) ==
    \/ \E key \in Keys, t \in Targets : NTICall(th, key, t)
    \/ NTIStore(th)

ClientStepOn(th, ts) ==
    \/ \E t \in ts, op \in {"Unary", "Close"} : ClientRLock(th, t, op)
    \/ ClientRead(th)
    \/ ClientRUnlock(th)
    \/ NilClientPanic(th)
    \/ UnaryCall(th)
    \/ CloseCall(th)

ClientStep(th) == ClientStepOn(th, Targets)

StringStepOn(th, ts) ==
    \/ \E t \in ts, op \in WithStringOps, request \in RequestTexts :
          WithStringEmpty(th, t, op, request)
    \/ \E t \in ts, op \in WithStringOps, request \in RequestTexts :
          WithStringUnparsable(th, t, op, request)
    \/ \E t \in ts, op \in WithStringOps, request \in RequestTexts :
          WithStringRLock(th, t, op, request)

StringStep(th) == StringStepOn(th, Targets)

SubscribeStepOn(th, ts) ==
    \/ \E t \in ts : SubscribeBadQuery(th, t)
    \/ \E t \in ts : SubReadAddrs(th, t)
    \/ SubReadTimeout(th)
    \/ SubReadTarget(th)
    \/ SubReadCredentials(th)
    \/ SubReadTLS(th)
    \/ SubOpen(th)

SubscribeStep(th) == SubscribeStepOn(th, Targets)

RequestStep(th) ==
    \/ \E options \in SubscribeOptionsSpace : NewSubscribeRequestCall(th, options)
    \/ NewSubscribeRequestReturn(th)

\* The whole package.
Next ==
    \E th \in Threads :
        \/ ConnectStep(th) \/ LookupStep(th) \/ ItemStep(th) \/ ClientStep(th)
        \/ StringStep(th) \/ SubscribeStep(th) \/ RequestStep(th)
Spec == Init /\ [][Next]_vars

\* Goroutines that connect targets and look them up.
NextRegistry == \E th \in Threads : ConnectStep(th) \/ LookupStep(th)
SpecRegistry == Init /\ [][NextRegistry]_vars

\* The same, with goroutines that call NewTargetItem.
NextItems == \E th \in Threads : ConnectStep(th) \/ LookupStep(th) \/ ItemStep(th)
SpecItems == Init /\ [][NextItems]_vars

\* Goroutines that connect targets and use their clients.
NextClient == \E th \in Threads : ConnectStep(th) \/ ClientStep(th)
SpecClient == Init /\ [][NextClient]_vars

\* Goroutines that connect targets and subscribe on them.
NextSubscribe == \E th \in Threads : ConnectStep(th) \/ SubscribeStep(th)
SpecSubscribe == Init /\ [][NextSubscribe]_vars

\* NewSubscribeRequest applied to every SubscribeOptions of the space: a
\* goroutine has been called with the options and returns.
InitRequest ==
    /\ targets = [k \in Keys |-> NoTarget]
    /\ targetMu = NoLock
    /\ mu = [t \in Targets |-> NoLock]
    /\ clt = [t \in Targets |-> Nil]
    /\ dest = [t \in Targets |-> ZeroDest]
    /\ ctx = [t \in Targets |-> NoCtx]
    /\ closed = [c \in Clients |-> 0]
    /\ dials = 0
    /\ bases = 0
    /\ subs = <<>>
    /\ closeCalls = 0
    /\ pc = [th \in Threads |-> IF th = "g1" THEN "nsr" ELSE "idle"]
    /\ \E options \in SubscribeOptionsSpace :
          loc = [th \in Threads |->
                    IF th = "g1"
                    THEN [Idle EXCEPT !.op = "NewSubscribeRequest", !.options = options]
                    ELSE Idle]
    /\ ret = NoRet
    /\ crash = NoCrash
    /\ lastConn = [k \in Keys |-> NoConn]
    /\ dialKey = [c \in Clients |-> NoKey]

NextRequest == \E th \in Threads : NewSubscribeRequestReturn(th)
SpecRequest == InitRequest /\ [][NextRequest]_vars

\* One goroutine that connects one Target to a device of any descriptor.
NextResolve == ConnectStepOn("g1", {"t1"}, DeviceSpace)
SpecResolve == Init /\ [][NextResolve]_vars

\* Goroutines that connect one Target to the devices and call it, by requests
\* and by request strings.
NextStrings ==
    \E th \in Threads :
        \/ ConnectStepOn(th, {"t1"}, Devices)
        \/ ClientStepOn(th, {"t1"})
        \/ StringStepOn(th, {"t1"})
SpecStrings == Init /\ [][NextStrings]_vars

\* Goroutines that connect one Target to the devices, look the keys up, use
\* the Target's client, subscribe on it and close it.
NextLifetime ==
    \E th \in Threads :
        \/ ConnectStepOn(th, {"t1"}, Devices)
        \/ LookupStep(th)
        \/ ClientStepOn(th, {"t1"})
        \/ SubscribeStepOn(th, {"t1"})
SpecLifetime == Init /\ [][NextLifetime]_vars

\* Goroutines that connect one Target, look the keys up, and use and close
\* the Target's client, under a fair scheduler: a goroutine inside a call
\* takes its next step if that step is possible again and again (the Go
\* scheduler runs every runnable goroutine, and a sync.RWMutex hands the lock
\* to a waiting Lock before readers that arrive later).
LocksStep(th) ==
    \/ ConnectStepOn(th, {"t1"}, Devices)
    \/ LookupStep(th)
    \/ ClientStepOn(th, {"t1"})
NextLocks == \E th \in Threads : LocksStep(th)
SpecLocks ==
    /\ Init
    /\ [][NextLocks]_vars
    /\ \A th \in Threads : SF_vars(pc[th] # "idle" /\ LocksStep(th))

\* ------------------------------------------------------------------- claims

ConnectPcs == {"ct_lock", "ct_close", "ct_dest", "ct_clt", "ct_clt2", "ct_ctx", "ct_unlock",
               "ct_reglock", "ct_store", "ct_regunlock"}

\* No ConnectTarget call is between its dial and its return.
Quiescent == \A th \in Threads : pc[th] \notin ConnectPcs

\* The clients dialed for the device of key k, and the last of them.
DialedFor(k) == { c \in Clients : dialKey[c] = k }
MostRecentDial(k) ==
    LET ns == { n \in 1..MaxClients : dialKey[Client(n)] = k }
    IN  IF ns = {} THEN Nil ELSE Client(CHOOSE n \in ns : \A m \in ns : m <= n)

\* C1: when a second ConnectTarget for a key returns, called after the first
\* one returned and both having dialed (on the same Target or on two), the
\* first client has been closed exactly once and the session registered under
\* the key holds the second client, not the first.
C1_SecondConnectClosesFirst ==
    ( /\ ret.op = "ConnectTarget"
      /\ ret.err = "nil"
      /\ lastConn[ret.key].prev \in Clients
      /\ Cardinality(DialedFor(ret.key)) = 2
      /\ closeCalls = 0 )
    => /\ closed[lastConn[ret.key].prev] = 1
       /\ targets[ret.key] # NoTarget
       /\ clt[targets[ret.key]] = lastConn[ret.key].c
       /\ clt[targets[ret.key]] # lastConn[ret.key].prev

\* C2: whenever no connect is under way, the session registered under a key
\* holds the client of the most recent successful dial for that key, also
\* when one Target was connected to devices of different keys.
C2_RegisteredClientIsLatestDial ==
    \A k \in Keys :
        (Quiescent /\ targets[k] # NoTarget /\ MostRecentDial(k) # Nil)
        => clt[targets[k]] = MostRecentDial(k)

\* C3: a ConnectTarget whose factory fails returns an error and the empty key
\* and changes nothing: the map, every Target's client, destination and
\* context, and the close count of every client are as before.
C3_FailedConnectChangesNothing ==
    [][ (ret'.op = "ConnectTarget" /\ ret'.err # "nil")
        => /\ ret'.key = NoKey
           /\ UNCHANGED <<targets, clt, dest, ctx, closed, targetMu, mu>> ]_vars

C3_Witness ==
    /\ ret.op = "ConnectTarget"
    /\ ret.err # "nil"
    /\ clt[ret.t] \in Clients
    /\ closed[clt[ret.t]] = 0
    /\ \E k \in Keys : Lookup(targets, k) = [t |-> ret.t, ok |-> TRUE]

\* C4: when ConnectTarget returns without error, the Target's client is not
\* nil, the key returned is the (ID, version) of the device, and the lookup of
\* that key in the map finds the Target the call was made on.
C4_ConnectedTargetIsFound ==
    (ret.op = "ConnectTarget" /\ ret.err = "nil")
    => /\ clt[ret.t] # Nil
       /\ ret.key = NewVersionedID(ret.device.ID, ret.device.Version)
       /\ Lookup(targets, ret.key) = [t |-> ret.t, ok |-> TRUE]

C4_Witness ==
    /\ ret.op = "GetTarget"
    /\ ret.err = "nil"
    /\ ret.t = lastConn[ret.key].t
    /\ clt[ret.t] = lastConn[ret.key].c
    /\ clt[ret.t] \in Clients

\* C5: after two overlapping ConnectTarget calls for one key have both
\* returned, the session registered under the key holds one of the two clients
\* they dialed and the other client has been closed.
C5_LoserOfConcurrentConnectClosed ==
    \A k \in Keys :
        ( /\ Quiescent
          /\ Cardinality(DialedFor(k)) = 2
          /\ lastConn[k].c \in Clients
          /\ lastConn[k].prev = Nil
          /\ closeCalls = 0 )
        => /\ targets[k] # NoTarget
           /\ clt[targets[k]] \in DialedFor(k)
           /\ \A c \in DialedFor(k) \ {clt[targets[k]]} : closed[c] >= 1

\* C6: no goroutine writes the targets map while another reads or writes it.
C6_NoConcurrentMapAccess == \A th \in Threads : ~MapRace(th)

\* C7: a Client() read on a Target that a ConnectTarget is changing yields the
\* client held before that connect or the client it dialed, never another
\* value; on a Target no connect is changing it yields the client held.
PrevOf(w) == IF pc[w] = "ct_close" THEN clt[loc[w].t] ELSE loc[w].old
OldOrNew(t) ==
    IF \E w \in Threads : mu[t].w = w
    THEN LET w == CHOOSE x \in Threads : mu[t].w = x IN {PrevOf(w), loc[w].c}
    ELSE {clt[t]}

C7_ClientReadsOldOrNew ==
    [][ \A th \in Threads :
          (pc[th] = "cl_read" /\ pc'[th] = "cl_runlock")
          => /\ loc'[th].got \in OldOrNew(loc[th].t)
             /\ loc'[th].got # Torn ]_vars

C7_Witness ==
    \E th \in Threads, w \in Threads :
        /\ pc[th] \in {"cl_runlock", "cl_call"}
        /\ pc[w] \in ConnectPcs
        /\ loc[w].t = loc[th].t
        /\ loc[th].got \in Clients

\* C8: a GetTarget of a key the map does not hold returns the "does not
\* exist" error with no Target and the keys the map holds, and does not crash.
C8_MissReturnsNotFound ==
    /\ crash.op # "GetTarget"
    /\ (ret.op = "GetTarget" /\ ret.err # "nil")
       => /\ ret.t = NoTarget
          /\ ret.names = { k \in Keys : targets[k] # NoTarget }

\* C9: Close on a Target that holds no client returns and does not crash.
C9_CloseWithoutClientIsSafe ==
    ~(crash.op = "Close" /\ crash.why = "nil pointer dereference")

\* C10: every subscription is issued on a client of its own from the base
\* client factory, never on a client a Target holds, no two subscriptions on
\* the same handle; and a Subscribe call changes no Target's client.
C10_SubscribeOnOwnClient ==
    /\ [](\A i \in DOMAIN subs :
            /\ subs[i].on \notin Clients \cup {Nil, Torn}
            /\ \A t \in Targets : subs[i].on # clt[t]
            /\ \A j \in DOMAIN subs : i # j => subs[i].on # subs[j].on)
    /\ [][ (ret'.op = "Subscribe" \/ Len(subs') # Len(subs))
           => clt' = clt /\ closed' = closed ]_vars

C10_Witness ==
    /\ Len(subs) = 2
    /\ subs[1].t = subs[2].t
    /\ clt[subs[1].t] \in Clients
    /\ ret.op = "Subscribe"
    /\ ret.err = "nil"

\* C11: no step of ConnectTarget, GetTarget, a unary call, Subscribe or Close
\* takes a key out of the targets map; a GetTarget that reads the map while it
\* holds the key finds the Target, and one that returns "does not exist" read
\* the map while the key was absent; the steps of Close leave the map as it is.
Registered(m) == { k \in Keys : m[k] # NoTarget }

C11_RegistryNeverShrinks ==
    [][ /\ Registered(targets) \subseteq Registered(targets')
        /\ \A th \in Threads :
              /\ (pc[th] = "gt_read" /\ pc'[th] = "gt_runlock" /\ loc[th].key \in Registered(targets))
                 => loc'[th].t = targets[loc[th].key]
              /\ (pc[th] = "gt_runlock" /\ loc[th].t # NoTarget)
                 => (ret'.op = "GetTarget" /\ ret'.err = "nil" /\ ret'.t = loc[th].t) \/ pc'[th] = pc[th]
              /\ (loc[th].op = "Close" \/ loc'[th].op = "Close") /\ pc'[th] # pc[th]
                 => targets' = targets ]_vars

C11_Witness ==
    /\ ret.op = "GetTarget"
    /\ ret.err = "nil"
    /\ closeCalls = 1
    /\ \A th \in Threads : pc[th] = "idle"
    /\ closed[clt[ret.t]] = 1
    /\ Registered(targets) = Keys

EmptyRequestErrors == {"cannot get an empty request", "cannot set an empty request"}
UnableToParseErrors == { "unable to parse gnmi." \o MessageOf(m) : m \in UnaryOps }

C13_UnparsableStringIsInvalid ==
    ( /\ ret.op \in WithStringOps
      /\ UnmarshalText(ret.request, MessageOf(MethodOf(ret.op))).err # "nil" )
    => /\ ret.code = "Invalid"
       /\ ret.err \in UnableToParseErrors
       /\ ret.resp = NoResponse
       /\ ret.calls = 0

\* C14: CapabilitiesWithString called with the empty string is not refused: it
\* calls Capabilities of the Target's client once, with the empty
\* CapabilityRequest, and when the client answers without error it returns the
\* client's response and no error.
C14_EmptyCapabilitiesAccepted ==
    (ret.op = "CapabilitiesWithString" /\ ret.request = EmptyText)
    => /\ ret.code # "Invalid"
       /\ ret.err \notin EmptyRequestErrors
       /\ ret.on \in Clients
       /\ ret.calls = 1
       /\ ret.rpc.method = "Capabilities"
       /\ ret.rpc.req = [msg |-> "CapabilityRequest", fields |-> <<>>]
       /\ ret.rpc.err = "nil" => (ret.err = "nil" /\ ret.resp = ret.rpc.resp /\ ret.resp # NoResponse)

C14_Witness ==
    /\ ret.op = "CapabilitiesWithString"
    /\ ret.request = EmptyText
    /\ ret.err = "nil"
    /\ ret.resp = <<"CapabilityResponse", "1.0">>

\* C15: a unary call (Capabilities, Get, Set, or a string form that parsed its
\* request) that returns has called its method of the client once; when the
\* client reported an error the call returns the wrapped error and no
\* response, and when it did not the call returns no error and the response
\* of the client.
C15_UnaryCallsClientOnce ==
    /\ ret.op \in UnaryOps => ret.on \in Clients
    /\ (ret.op \in UnaryOps \cup WithStringOps /\ ret.on \in Clients)
       => /\ ret.calls = 1
          /\ ret.rpc.method = MethodOf(ret.op)
          /\ ret.rpc.req.msg = MessageOf(ret.rpc.method)
          /\ ret.rpc.err # "nil" => (ret.err = "target returned RPC error" /\ ret.resp = NoResponse)
          /\ ret.rpc.err = "nil" => (ret.err = "nil" /\ ret.resp = ret.rpc.resp)

C15_Witness ==
    /\ ret.op = "SetWithString"
    /\ ret.request = <<"delete">>
    /\ ret.err = "nil"
    /\ ret.resp = <<"SetResponse", "DELETE">>
    /\ ret.rpc.req = [msg |-> "SetRequest", fields |-> <<"delete">>]

\* The device descriptor of the ConnectTarget call that has just returned, and
\* the Destination that call passed to the client factory.
Device == ret.device
Resolved == ret.dialed
NonPlainConnect == ret.op = "ConnectTarget" /\ ~Device.TLS.Plain
HasCredentials == Device.Credentials.User # "" /\ Device.Credentials.Password # ""
HasKeyPairPaths == Device.TLS.Cert # "" /\ Device.TLS.Key # ""

\* C16: for a device that is not plain, with a username and a password and not
\* both a certificate path and a key path, the Destination carries these
\* credentials and no client certificate; the embedded default certificate is
\* attached only when there are neither both paths nor credentials.
C16_CredentialsBeforeDefaultCert ==
    NonPlainConnect
    => /\ (HasCredentials /\ ~HasKeyPairPaths)
          => /\ Resolved.Credentials = [Username |-> Device.Credentials.User,
                                        Password |-> Device.Credentials.Password]
             /\ Resolved.TLS.Certificates = <<>>
       /\ Resolved.TLS.Certificates = <<DefaultClientCerts>>
          => (~HasKeyPairPaths /\ ~HasCredentials)

\* C17: for a device whose Plain flag is set, whatever its other TLS fields and
\* credentials, the Destination passed to the factory, and the one stored in
\* the Target when the connect succeeds, has no TLS configuration.
C17_PlainHasNoTLS ==
    (ret.op = "ConnectTarget" /\ Device.TLS.Plain)
    => /\ Resolved.TLS = NoTLS
       /\ ret.err = "nil" => dest[ret.t].TLS = NoTLS

C17_Witness ==
    /\ ret.op = "ConnectTarget"
    /\ ret.err = "nil"
    /\ Device.TLS = [Plain |-> TRUE, Insecure |-> TRUE, CaCert |-> "ca.crt", Cert |-> "client.crt",
                     Key |-> "client.key"]
    /\ HasCredentials
    /\ dest[ret.t].TLS = NoTLS

\* C18: for a device that is not plain and gives both a certificate path and a
\* key path, the one client certificate of the Destination is what loading
\* these two paths gives, and not the embedded default, whatever the
\* credentials, the CA path and the Insecure flag.
C18_DeviceKeyPairIsUsed ==
    (NonPlainConnect /\ HasKeyPairPaths)
    => /\ Resolved.TLS # NoTLS
       /\ Resolved.TLS.Certificates =
             << IF {Device.TLS.Cert, Device.TLS.Key} \subseteq ReadableFiles
                THEN <<"keypair", Device.TLS.Cert, Device.TLS.Key>>
                ELSE ZeroCertificate >>
       /\ Resolved.TLS.Certificates # <<DefaultClientCerts>>

C18_Witness ==
    /\ NonPlainConnect
    /\ ret.err = "nil"
    /\ HasCredentials
    /\ Device.TLS.Insecure
    /\ dest[ret.t].TLS.Certificates = << <<"keypair", "client.crt", "client.key">> >>

\* C19: for a device that is not plain and whose Insecure flag is set, the TLS
\* descriptor of the Destination has InsecureSkipVerify set, with the CA of
\* the device or the default one and with every client identity.
C19_InsecureSkipsVerification ==
    (NonPlainConnect /\ Device.TLS.Insecure)
    => /\ Resolved.TLS # NoTLS
       /\ Resolved.TLS.InsecureSkipVerify

C19_Witness ==
    /\ NonPlainConnect
    /\ ret.err = "nil"
    /\ Device.TLS.Insecure
    /\ Device.TLS.CaCert = "ca.crt"
    /\ Resolved.Credentials # NoCredentials
    /\ dest[ret.t].TLS.RootCAs = <<"pool", "ca.crt">>
    /\ dest[ret.t].TLS.InsecureSkipVerify

\* C20: every ConnectTarget call passes a Destination for the device to the
\* factory, and its only error is the one of the factory; when it returns no
\* error it returns the key of the device and the Target holds that
\* Destination. With exactly one of the certificate and key paths and without
\* both a username and a password, the Destination has InsecureSkipVerify set.
C20_ResolutionNeverFails ==
    ret.op = "ConnectTarget"
    => /\ Resolved.Addrs = <<Device.Address>>
       /\ Resolved.Target = Device.Target
       /\ ret.err # "nil" => ret.err = "could not create a gNMI client"
       /\ ret.err = "nil" => /\ ret.key = NewVersionedID(Device.ID, Device.Version)
                             /\ dest[ret.t] = Resolved
       /\ ( /\ ~Device.TLS.Plain
            /\ (Device.TLS.Cert = "") # (Device.TLS.Key = "")
            /\ ~HasCredentials )
          => /\ Resolved.TLS # NoTLS
             /\ Resolved.TLS.InsecureSkipVerify

C20_Witness ==
    /\ NonPlainConnect
    /\ ret.err = "nil"
    /\ ~Device.TLS.Insecure
    /\ Device.TLS.Cert = "missing.crt"
    /\ Device.TLS.Key = ""
    /\ Device.Credentials = [User |-> "User", Password |-> ""]
    /\ dest[ret.t].TLS.InsecureSkipVerify
    /\ clt[ret.t] \in Clients

\* The options and the result of the NewSubscribeRequest call that has just
\* returned.
Options == ret.options
Built == ret.subscribe
RequestReturned == ret.op = "NewSubscribeRequest"

\* A string equals a name of an enum but for the case of its letters.
EqualIgnoringCase(str, name) ==
    /\ Len(str) = Len(name)
    /\ \A i \in DOMAIN str : str[i] = name[i] \/ ToUpperChar(str[i]) = name[i]

ListModeNames == { <<ONCE, "ONCE">>, <<POLL, "POLL">>, <<STREAM, "STREAM">> }
StreamModeNames ==
    { <<ON_CHANGE, "ON_CHANGE">>, <<SAMPLE, "SAMPLE">>, <<TARGET_DEFINED, "TARGET_DEFINED">> }
Recognised(str, names) == str = <<>> \/ \E n \in names : EqualIgnoringCase(str, n[1])

\* The segment whose predicate is not closed makes a path unparsable.
Unparsable(elems) == \E i \in DOMAIN elems : elems[i] = "list5[key1"

\* C21: a Mode equal but for case to ONCE, POLL or STREAM is not refused and
\* gives that list mode, the empty Mode gives STREAM; a StreamMode equal but
\* for case to ON_CHANGE, SAMPLE or TARGET_DEFINED is not refused and gives
\* that mode in every subscription, the empty one gives TARGET_DEFINED, with
\* every list mode.
C21_ModesIgnoreCase ==
    RequestReturned
    => /\ \A n \in ListModeNames :
             (EqualIgnoringCase(Options.Mode, n[1]) \/ (Options.Mode = <<>> /\ n[2] = "STREAM"))
             => /\ ret.err # "subscribe mode invalid"
                /\ ret.err = "nil" => Built.Mode = n[2]
       /\ \A n \in StreamModeNames :
             ( /\ EqualIgnoringCase(Options.StreamMode, n[1])
                  \/ (Options.StreamMode = <<>> /\ n[2] = "TARGET_DEFINED")
               /\ Recognised(Options.Mode, ListModeNames) )
             => /\ ret.err # "subscribe stream mode invalid"
                /\ ret.err = "nil"
                   => \A i \in DOMAIN Built.Subscription : Built.Subscription[i].Mode = n[2]

C21_Witness ==
    /\ RequestReturned
    /\ ret.err = "nil"
    /\ Options.Mode = <<"P", "o", "l", "l">>
    /\ Options.StreamMode = <<"o", "n", "_", "c", "h", "a", "n", "g", "e">>
    /\ Built.Mode = "POLL"
    /\ Len(Built.Subscription) = MaxPaths
    /\ Built.Subscription[1].Mode = "ON_CHANGE"

\* C22: with a Mode, or a StreamMode, that is neither empty nor a name of its
\* enum but for case, the call returns no request and the error of the mode
\* that is wrong, naming that string, whatever the other options are.
C22_UnknownModeIsRefused ==
    ( /\ RequestReturned
      /\ ~Recognised(Options.Mode, ListModeNames)
         \/ ~Recognised(Options.StreamMode, StreamModeNames) )
    => /\ Built = NoSubscribeRequest
       /\ \/ /\ ret.err = "subscribe mode invalid"
             /\ ret.arg = Options.Mode
             /\ ~Recognised(Options.Mode, ListModeNames)
          \/ /\ ret.err = "subscribe stream mode invalid"
             /\ ret.arg = Options.StreamMode
             /\ ~Recognised(Options.StreamMode, StreamModeNames)

C22_Witness ==
    /\ RequestReturned
    /\ Options.Mode = <<"o", "n", "c", "e">>
    /\ Options.StreamMode = <<"b", "o", "g", "u", "s">>
    /\ Options.Prefix = <<"/", "a", "/", "list5[key1=abc]">>
    /\ Len(Options.Paths) = MaxPaths
    /\ ret.err = "subscribe stream mode invalid"
    /\ ret.arg = <<"b", "o", "g", "u", "s">>
    /\ Built = NoSubscribeRequest

\* C23: a request that is returned has as many subscriptions as the options
\* have paths, the i-th with the parsed i-th path, and has the UpdatesOnly
\* of the options and their parsed prefix; no paths give no subscriptions.
C23_OneSubscriptionPerPath ==
    (RequestReturned /\ ret.err = "nil")
    => /\ Built # NoSubscribeRequest
       /\ Len(Built.Subscription) = Len(Options.Paths)
       /\ \A i \in DOMAIN Options.Paths :
             Built.Subscription[i].Path.Elem =
                 [j \in DOMAIN Options.Paths[i] |-> ParseElem(Options.Paths[i][j])]
       /\ Built.UpdatesOnly = Options.UpdatesOnly
       /\ Built.Prefix.Elem = [j \in DOMAIN SplitPath(Options.Prefix) |->
                                  ParseElem(SplitPath(Options.Prefix)[j])]

C23_Witness ==
    /\ RequestReturned
    /\ ret.err = "nil"
    /\ Options.Paths = << <<"a", "list5[key1=abc]">>, <<"a">> >>
    /\ Options.UpdatesOnly
    /\ Built.Subscription[1].Path.Elem[2].Key = <<"key1", "abc">>
    /\ Len(Built.Subscription[2].Path.Elem) = 1
    /\ Len(Built.Prefix.Elem) = 2

\* C24: every subscription of a request that is returned has the one stream
\* mode resolved from the options, the SampleInterval and HeartbeatInterval of
\* the options as they are, and the Origin of the options on its path.
C24_SubscriptionsCarryOptions ==
    (RequestReturned /\ ret.err = "nil")
    => \A i \in DOMAIN Built.Subscription :
          /\ Built.Subscription[i].Mode = Built.Subscription[1].Mode
          /\ \E n \in StreamModeNames :
                /\ n[2] = Built.Subscription[i].Mode
                /\ EqualIgnoringCase(Options.StreamMode, n[1])
                   \/ (Options.StreamMode = <<>> /\ n[2] = "TARGET_DEFINED")
          /\ Built.Subscription[i].SampleInterval = Options.SampleInterval
          /\ Built.Subscription[i].HeartbeatInterval = Options.HeartbeatInterval
          /\ Built.Subscription[i].Path.Origin = Options.Origin

C24_Witness ==
    /\ RequestReturned
    /\ ret.err = "nil"
    /\ Len(Built.Subscription) = MaxPaths
    /\ Options.SampleInterval = 0
    /\ Options.HeartbeatInterval = 15
    /\ Options.Origin = "openconfig"
    /\ Built.Subscription[MaxPaths].Path.Origin = "openconfig"
    /\ Built.Subscription[MaxPaths].Mode = "SAMPLE"

\* C25: when the prefix or one of the paths does not parse, no request is
\* returned; and when both modes are recognised, so that the paths are
\* parsed, the error returned is the parse error, wherever the path is.
C25_ParseFailureReturnsNoRequest ==
    ( /\ RequestReturned
      /\ Unparsable(SplitPath(Options.Prefix))
         \/ \E i \in DOMAIN Options.Paths : Unparsable(Options.Paths[i]) )
    => /\ Built = NoSubscribeRequest
       /\ ret.err # "nil"
       /\ ( /\ Recognised(Options.Mode, ListModeNames)
            /\ Recognised(Options.StreamMode, StreamModeNames) )
          => ret.err = "malformed path predicate"

C25_Witness ==
    /\ RequestReturned
    /\ Len(Options.Paths) = MaxPaths
    /\ ~Unparsable(Options.Paths[1])
    /\ Unparsable(Options.Paths[MaxPaths])
    /\ ~Unparsable(SplitPath(Options.Prefix))
    /\ ret.err = "malformed path predicate"
    /\ Built = NoSubscribeRequest

\* The locks a goroutine holds, and the goroutines that are at a call on a
\* client: the Close of the client a Target held (line 128), a unary call or
\* a Close (lines 182, 204, 226, 276), a Subscribe (line 250).
HoldsRegistryLock(th) == targetMu.w = th \/ th \in targetMu.r
HoldsTargetLock(th) == \E t \in Targets : mu[t].w = th \/ th \in mu[t].r
AtTransportCall(th) ==
    \/ pc[th] = "ct_close" /\ clt[loc[th].t] \in Clients
    \/ pc[th] = "cl_call" /\ loc[th].got \in Clients
    \/ pc[th] = "sub_open"

\* C26: a goroutine that is at a call on a client holds no lock; a goroutine
\* that has not dialed yet holds none either; and the write lock of the map
\* is held at the map assignment and its unlock only.
C26_NoTransportCallUnderLock ==
    \A th \in Threads :
        /\ AtTransportCall(th) => ~(HoldsRegistryLock(th) \/ HoldsTargetLock(th))
        /\ pc[th] = "idle" => ~(HoldsRegistryLock(th) \/ HoldsTargetLock(th))
        /\ targetMu.w = th => pc[th] \in {"ct_store", "ct_regunlock"}

\* C27: the query a Subscribe call has filled from the Target's Destination
\* holds one Destination as a whole: the zero one of a Target never connected
\* or the one resolved for one device.
WholeDestinations == {ZeroDest} \cup { createDestination(device).d : device \in Devices }

C27_QueryFromOneDestination ==
    \A th \in Threads : pc[th] = "sub_open" => loc[th].q \in WholeDestinations

\* C28: the client a unary call has called was not closed when it was called.
C28_NoCallOnClosedClient ==
    (ret.op \in UnaryOps \cup WithStringOps /\ ret.on \in Clients) => closed[ret.on] = 0

\* C29: no client has been closed more than once.
C29_ClosedAtMostOnce == \A c \in Clients : closed[c] <= 1

\* C30: no goroutine holds the lock of the map and the lock of a Target
\* together, a goroutine that is in no call holds no lock, and every call that
\* has begun returns.
C30_EveryCallCompletes ==
    /\ [](\A th \in Threads :
            /\ ~(HoldsRegistryLock(th) /\ HoldsTargetLock(th))
            /\ pc[th] = "idle" => ~(HoldsRegistryLock(th) \/ HoldsTargetLock(th)))
    /\ \A th \in Threads : (pc[th] # "idle") ~> (pc[th] = "idle")

====
